---- MODULE Spec2Model ----
(***************************************************************************)
(* A model of seq-io: the CDC event relay (the `stream` handler of the     *)
(* oRPC router), the connector lifecycle (saveConnector, deleteConnector   *)
(* and the Kafka Connect requests they make) and the database handlers     *)
(* (validate and fix of the PostgreSQL and the MySQL handler).             *)
(*                                                                         *)
(* The parts share no state.       Each has its own specification:        *)
(*   RelaySpec, FairRelaySpec   the stream handler                         *)
(*   LifecycleSpec              saveConnector / deleteConnector            *)
(*   HandlerSpec                validate / fix                             *)
(*   ClassifierSpec             eachMessage of the CDC consumer            *)
(* and Spec is their interleaving.                                         *)
(***************************************************************************)
EXTENDS Integers, Sequences, FiniteSets, TLC

VARIABLES
  \* ---- stream handler (src/src/orpc/router/index.ts:26-124)
  pc,               \* where the async generator stands
  requests,         \* the generator's queue of next()/return() requests
  messageQueue,     \* line 48
  messageResolver,  \* line 49: "null" or "resolve"
  streamError,      \* line 50: "null" or "error"
  eventCount,       \* line 27
  consumer,         \* line 28: "null", "running" or "disconnected"
  race,             \* the Promise.race of the current wait (lines 92-105)
  timers,           \* the armed setTimeout callbacks, oldest first
  brokerAlive,      \* whether the broker subscription is alive
  delivered,        \* history: the events the delivery callback received
  yielded,          \* history: what the generator yielded
  cancelMark,       \* history: what was yielded / in flight when return() was called
  cancelObserved,   \* history: the generator was resumed by return()
  threw,            \* the generator body is unwinding with an exception
  \* ---- database handlers (src/unnamed/part_004, src/src/lib/handlers/index.ts)
  db,               \* the source database a handler is pointed at
  dbBefore,         \* history: the database before the last operation
  report,           \* the ValidationReport the last operation returned
  lastOp,           \* "none", "validate" or "fix"
  \* ---- connector lifecycle (src/unnamed/part_005:421-676)
  files,            \* CONNECTORS_DIR: the persisted profile of each id
  jobs,             \* Kafka Connect: the connector registered under each name
  lpc,              \* where each invocation stands
  call,             \* each invocation: its arguments, what it did, its outcome
  \* ---- envelope classifier (src/unnamed/part_006:494-577)
  msg,              \* the key and the value of the broker message at hand
  outcome,          \* what eachMessage made of it
  \* ---- capture configuration (getDebeziumConfig of both handlers)
  config,           \* a connection and the configurations generated for it
  \* ---- stream sessions (src/src/orpc/router/index.ts:44-45)
  sessions,         \* the clock and the consumer group of each session opened
  \* ---- client stream hook (src/src/hooks/use-stream.ts)
  hook,             \* the state and the refs of useStream
  \* ---- infrastructure widget (src/unnamed/part_001, part_003)
  widget            \* the queries and mutations of InfrastructureStatusWidget

relayVars == <<pc, requests, messageQueue, messageResolver, streamError, eventCount,
               consumer, race, timers, brokerAlive, delivered, yielded, cancelMark,
               cancelObserved, threw>>

handlerVars == <<db, dbBefore, report, lastOp>>

lifecycleVars == <<files, jobs, lpc, call>>

classifierVars == <<msg, outcome>>

frontVars == <<config, sessions, hook, widget>>

vars == <<relayVars, handlerVars, lifecycleVars, classifierVars, frontVars>>

(***************************************************************************)
(* Bounds of the model.                                                    *)
(***************************************************************************)
MaxOffset == 1
MaxDeliveries == 3
MaxPending == 1
MaxProcs == 2
MaxIds == 1
MaxRandom == 1
MaxInvocations == 2
MaxClock == 2
MaxSessions == 3
MaxPartition == 1

(***************************************************************************)
(*                          THE STREAM RELAY                               *)
(***************************************************************************)

\* The two topics the topic pattern of a session matches (line 38).
Topics == {"src", "src.all-changes"}

\* What the relay reads of a CDCEvent: its topic and its offset.
Events == [topic : Topics, offset : 0..MaxOffset]

\* The null a wait resolves with when its tick fires (lines 99, 102).
NoEvent == [topic |-> "null", offset |-> -1]

Pending == [settled |-> FALSE, value |-> NoEvent]

Settle(r, v) == IF r.settled THEN r ELSE [settled |-> TRUE, value |-> v]

RECURSIVE Count(_, _)
Count(s, x) == IF s = <<>> THEN 0
               ELSE (IF Head(s) = x THEN 1 ELSE 0) + Count(Tail(s), x)

PendingNext == Count(requests, "next")

RelayStart ==
  /\ pc = "start"
  /\ requests = <<>>
  /\ messageQueue = <<>>
  /\ messageResolver = "null"
  /\ streamError = "null"
  /\ eventCount = 0
  /\ consumer = "null"
  /\ race = Pending
  /\ timers = <<>>
  /\ brokerAlive = TRUE
  /\ delivered = <<>>
  /\ yielded = <<>>
  /\ cancelMark = [set |-> FALSE, yielded |-> 0, pending |-> 0]
  /\ cancelObserved = FALSE
  /\ threw = FALSE

\* Fault: the event is put at the front of the queue (unshift for push).
QueuePushFront(q, e) == <<e>> \o q

\* Fault: the callback drops the event it finds no reader for.
QueuePushDrop(q, e) == q

\* messageQueue.push(event), line 61.
QueuePush(q, e) == Append(q, e)

\* Fault: the head is read and left in the queue.
QueueShiftKeep(q) == q

\* messageQueue.shift(), line 81: what is left of the queue.
QueueShift(q) == Tail(q)

(* The transport calls next() on the generator.  A generator that is       *)
(* suspended (at its start or at a yield) resumes at once; one that is     *)
(* running keeps the request in its queue until its next yield.            *)
ConsumerNext ==
  /\ pc \notin {"done", "failed"}
  /\ ~cancelMark.set
  /\ PendingNext < MaxPending
  /\ requests' = Append(requests, "next")
  /\ pc' = IF pc = "start" THEN "connecting"
           ELSE IF pc = "yield" THEN "loop"
           ELSE pc
  /\ UNCHANGED <<messageQueue, messageResolver, streamError, eventCount, consumer,
                 race, timers, brokerAlive, delivered, yielded, cancelMark,
                 cancelObserved, threw>>

(* The transport cancels: return() on the generator.  At a yield the       *)
(* generator resumes with a return completion and runs its finally block   *)
(* (lines 118-123); before its first next() it completes without running;  *)
(* while it runs, the request waits in the queue behind the pending next().*)
ConsumerCancel ==
  /\ pc \notin {"done", "failed"}
  /\ ~cancelMark.set
  /\ cancelMark' = [set |-> TRUE, yielded |-> Len(yielded), pending |-> PendingNext]
  /\ IF pc = "start"
       THEN /\ pc' = "done"
            /\ requests' = <<>>
            /\ cancelObserved' = TRUE
       ELSE IF pc = "yield"
       THEN /\ pc' = "finally"
            /\ requests' = <<"return">>
            /\ cancelObserved' = TRUE
       ELSE /\ pc' = pc
            /\ requests' = Append(requests, "return")
            /\ cancelObserved' = cancelObserved
  /\ UNCHANGED <<messageQueue, messageResolver, streamError, eventCount, consumer,
                 race, timers, brokerAlive, delivered, yielded, threw>>

(* await createCDCConsumer(...), lines 53-70: the consumer connects,        *)
(* subscribes and runs, or the call throws with consumer still null, so    *)
(* that the finally block has nothing to disconnect.                       *)
GenConnect ==
  /\ pc = "connecting"
  /\ \E ok \in BOOLEAN :
       IF ok
         THEN /\ consumer' = "running"
              /\ pc' = "loop"
              /\ UNCHANGED <<requests, threw>>
         ELSE /\ consumer' = consumer
              /\ pc' = "failed"
              /\ requests' = <<>>
              /\ threw' = TRUE
  /\ UNCHANGED <<messageQueue, messageResolver, streamError, eventCount, race,
                 timers, brokerAlive, delivered, yielded, cancelMark, cancelObserved>>

(* A yield (lines 85-87 and 111-113): the value answers the oldest next().  *)
(* With another request queued the generator resumes at once: a next()     *)
(* continues the loop, a return() runs the finally block.                  *)
DoYield(event, via) ==
  LET rest == Tail(requests) IN
  /\ yielded' = Append(yielded, [event |-> event, n |-> eventCount + 1, via |-> via])
  /\ eventCount' = eventCount + 1
  /\ requests' = rest
  /\ pc' = IF rest = <<>> THEN "yield"
           ELSE IF Head(rest) = "next" THEN "loop"
           ELSE "finally"
  /\ cancelObserved' = (cancelObserved \/ (rest # <<>> /\ Head(rest) = "return"))

(* One turn of the while loop, lines 73-105, up to its yield or its await. *)
GenLoop ==
  /\ pc = "loop"
  /\ IF streamError # "null"
       THEN \* lines 75-77
            /\ pc' = "finally"
            /\ threw' = TRUE
            /\ UNCHANGED <<requests, messageQueue, messageResolver, eventCount, race,
                           timers, yielded, cancelObserved>>
       ELSE IF Len(messageQueue) > 0
       THEN \* lines 80-89
            /\ DoYield(Head(messageQueue), "queue")
            /\ messageQueue' = QueueShift(messageQueue)
            /\ UNCHANGED <<messageResolver, race, timers, threw>>
       ELSE \* lines 92-105: a new wait, its resolver and its tick
            /\ messageResolver' = "resolve"
            /\ race' = Pending
            /\ timers' = Append([i \in 1..Len(timers) |-> FALSE], TRUE)
            /\ pc' = "waiting"
            /\ UNCHANGED <<requests, messageQueue, eventCount, yielded,
                           cancelObserved, threw>>
  /\ UNCHANGED <<streamError, consumer, brokerAlive, delivered, cancelMark>>

(* The await of line 92 returns: lines 107-114.                            *)
GenResume ==
  /\ pc = "waiting"
  /\ race.settled
  /\ IF race.value # NoEvent
       THEN DoYield(race.value, "handoff")
       ELSE /\ pc' = "loop"
            /\ UNCHANGED <<requests, eventCount, yielded, cancelObserved>>
  /\ UNCHANGED <<messageQueue, messageResolver, streamError, consumer, race, timers,
                 brokerAlive, delivered, cancelMark, threw>>

(* Fault: a finally block that first yields what is left in the queue.     *)
GenFinallyFlush ==
  /\ pc = "finally"
  /\ IF messageQueue # <<>>
       THEN /\ yielded' = Append(yielded, [event |-> Head(messageQueue),
                                           n |-> eventCount + 1, via |-> "queue"])
            /\ eventCount' = eventCount + 1
            /\ messageQueue' = Tail(messageQueue)
            /\ UNCHANGED <<pc, requests, consumer>>
       ELSE /\ consumer' = "disconnected"
            /\ pc' = IF threw THEN "failed" ELSE "done"
            /\ requests' = <<>>
            /\ UNCHANGED <<messageQueue, eventCount, yielded>>
  /\ UNCHANGED <<messageResolver, streamError, race, timers, brokerAlive, delivered,
                 cancelMark, cancelObserved, threw>>

(* The finally block, lines 118-123: await consumer.disconnect().          *)
GenFinally ==
  /\ pc = "finally"
  /\ consumer' = "disconnected"
  /\ pc' = IF threw THEN "failed" ELSE "done"
  /\ requests' = <<>>
  /\ UNCHANGED <<messageQueue, messageResolver, streamError, eventCount, race, timers,
                 brokerAlive, delivered, yielded, cancelMark, cancelObserved, threw>>

(* The delivery callback, lines 54-63, called by the running consumer with *)
(* a classified event; the broker may deliver an event again.              *)
Callback(event) ==
  /\ consumer = "running"
  /\ brokerAlive
  /\ Len(delivered) < MaxDeliveries
  /\ delivered' = Append(delivered, event)
  /\ IF messageResolver # "null"
       THEN /\ race' = Settle(race, event)
            /\ messageResolver' = "null"
            /\ UNCHANGED messageQueue
       ELSE /\ messageQueue' = QueuePush(messageQueue, event)
            /\ UNCHANGED <<race, messageResolver>>
  /\ UNCHANGED <<pc, requests, streamError, eventCount, consumer, timers, brokerAlive,
                 yielded, cancelMark, cancelObserved, threw>>

(* The oldest armed tick fires, lines 97-103: it resolves whatever wait    *)
(* owns messageResolver now, then the promise of the wait that armed it.   *)
TimerFire ==
  /\ timers # <<>>
  /\ timers' = Tail(timers)
  /\ IF messageResolver # "null"
       THEN /\ race' = Settle(race, NoEvent)
            /\ messageResolver' = "null"
       ELSE /\ race' = IF Head(timers) /\ pc = "waiting" THEN Settle(race, NoEvent)
                       ELSE race
            /\ UNCHANGED messageResolver
  /\ UNCHANGED <<pc, requests, messageQueue, streamError, eventCount, consumer,
                 brokerAlive, delivered, yielded, cancelMark, cancelObserved, threw>>

(* The broker subscription dies.  createCDCConsumer registers no listener  *)
(* for it and nothing assigns streamError.                                 *)
BrokerDie ==
  /\ consumer = "running"
  /\ brokerAlive
  /\ brokerAlive' = FALSE
  /\ UNCHANGED <<pc, requests, messageQueue, messageResolver, streamError, eventCount,
                 consumer, race, timers, delivered, yielded, cancelMark,
                 cancelObserved, threw>>

(***************************************************************************)
(*                        THE DATABASE HANDLERS                            *)
(***************************************************************************)

\* A ValidationResult (part_004:516-521): its step and its status.  A query
\* that throws inside a check makes the check return status error, as a
\* wrong value does, so the values below stand for both.
Step(name, status) == [step |-> name, status |-> status]

HasError(results) == \E i \in 1..Len(results) : results[i].status = "error"

ConnectionOk == Step("Database Connection", "success")
ConnectionFailed == Step("Database Connection", "error")

\* The PostgreSQL servers a handler may meet.  ALTER SYSTEM writes a setting
\* that SHOW reports only after a restart: `pending` holds what was written.
PostgresDbs ==
  [engine : {"postgres"}, connect : BOOLEAN, wal_level : {"logical", "replica"},
   max_wal_senders : {0, 10}, max_replication_slots : {0, 10},
   rolsuper : {"super", "plain", "missing"}, alterOk : BOOLEAN, pending : {{}}]

\* The MySQL servers a handler may meet.  setOk, grantOk: whether SET GLOBAL
\* and GRANT succeed.  fixVisible: whether the connection that made a change
\* sees it in its own SHOW VARIABLES / SHOW GRANTS afterwards (a session keeps
\* its own copy of a global variable).
MySQLDbs ==
  [engine : {"mysql"}, connect : BOOLEAN, binlog_format : {"ROW", "MIXED", "absent"},
   binlog_row_image : {"FULL", "MINIMAL", "absent"}, grants : {"all", "some"},
   setOk : BOOLEAN, grantOk : BOOLEAN, fixVisible : BOOLEAN]

Dbs == PostgresDbs \cup MySQLDbs

\* ---- PostgreSQLHandler

checkWalLevel(d) ==
  IF d.wal_level # "logical" THEN Step("WAL Level", "error")
  ELSE Step("WAL Level", "success")

checkMaxWalSenders(d) ==
  IF d.max_wal_senders < 1 THEN Step("Max WAL Senders", "error")
  ELSE Step("Max WAL Senders", "success")

checkMaxReplicationSlots(d) ==
  IF d.max_replication_slots < 1 THEN Step("Max Replication Slots", "error")
  ELSE Step("Max Replication Slots", "success")

PGcheckUserPermissions(d) ==
  IF d.rolsuper = "missing" THEN Step("User Permissions", "error")
  ELSE IF d.rolsuper # "super" THEN Step("User Permissions", "error")
  ELSE Step("User Permissions", "success")

\* Fault: the ALTER SYSTEM that went through is reported as an error.
fixWalLevelAsError(d) == Step("Fix WAL Level", "error")

fixWalLevel(d) ==
  IF d.alterOk THEN Step("Fix WAL Level", "warning")
  ELSE Step("Fix WAL Level", "error")

fixMaxWalSenders(d) ==
  IF d.alterOk THEN Step("Fix Max WAL Senders", "warning")
  ELSE Step("Fix Max WAL Senders", "error")

fixMaxReplicationSlots(d) ==
  IF d.alterOk THEN Step("Fix Max Replication Slots", "warning")
  ELSE Step("Fix Max Replication Slots", "error")

\* Fault: the catch block leaves the step of the attempt in place.
PGValidateAttemptLeft(d) ==
  IF ~d.connect
    THEN [isReady |-> FALSE, results |-> <<ConnectionOk>>]
    ELSE LET results == <<ConnectionOk, checkWalLevel(d), checkMaxWalSenders(d),
                          checkMaxReplicationSlots(d), PGcheckUserPermissions(d)>>
         IN  [isReady |-> ~HasError(results), results |-> results]

\* validate, part_004:281-351.
PGValidate(d) ==
  IF ~d.connect
    THEN [isReady |-> FALSE, results |-> <<ConnectionFailed>>]
    ELSE LET results == <<ConnectionOk, checkWalLevel(d), checkMaxWalSenders(d),
                          checkMaxReplicationSlots(d), PGcheckUserPermissions(d)>>
         IN  [isReady |-> ~HasError(results), results |-> results]

\* Fault: the corrective action runs whatever the check found.
CheckAndFixAlways(check, fix) == <<check, fix>>

\* What a check in error and its fix add to results (part_004:386-393).
CheckAndFix(check, fix) ==
  IF check.status = "error" THEN <<check, fix>> ELSE <<check>>

\* The settings fix writes with ALTER SYSTEM.
PGAltered(d) ==
  IF ~d.connect \/ ~d.alterOk THEN {}
  ELSE {s \in {"wal_level", "max_wal_senders", "max_replication_slots"} :
          \/ s = "wal_level" /\ checkWalLevel(d).status = "error"
          \/ s = "max_wal_senders" /\ checkMaxWalSenders(d).status = "error"
          \/ s = "max_replication_slots" /\ checkMaxReplicationSlots(d).status = "error"}

\* The database fix leaves behind.
PGFixDb(d) == [d EXCEPT !.pending = d.pending \cup PGAltered(d)]

\* fix, part_004:356-470.
PGFix(d) ==
  IF ~d.connect
    THEN [isReady |-> FALSE, results |-> <<ConnectionFailed>>]
    ELSE LET checks == <<ConnectionOk>>
                 \o CheckAndFix(checkWalLevel(d), fixWalLevel(d))
                 \o CheckAndFix(checkMaxWalSenders(d), fixMaxWalSenders(d))
                 \o CheckAndFix(checkMaxReplicationSlots(d), fixMaxReplicationSlots(d))
                 \o <<PGcheckUserPermissions(d)>>
             needsRestart == \E i \in 1..Len(checks) :
                               /\ checks[i].status = "warning"
                               /\ checks[i].step \in {"Fix WAL Level",
                                     "Fix Max WAL Senders", "Fix Max Replication Slots"}
             results == IF needsRestart
                          THEN Append(checks, Step("Restart Required", "warning"))
                          ELSE checks
             finalPermissions == PGcheckUserPermissions(PGFixDb(d))
             hasBlockingErrors == finalPermissions.status = "error"
         IN  [isReady |-> ~hasBlockingErrors, results |-> results]

\* ---- MySQLHandler

checkBinlogFormat(d) ==
  IF d.binlog_format = "absent" THEN Step("Binlog Format", "error")
  ELSE IF d.binlog_format # "ROW" THEN Step("Binlog Format", "error")
  ELSE Step("Binlog Format", "success")

checkBinlogRowImage(d) ==
  IF d.binlog_row_image = "absent" THEN Step("Binlog Row Image", "warning")
  ELSE IF d.binlog_row_image # "FULL" THEN Step("Binlog Row Image", "error")
  ELSE Step("Binlog Row Image", "success")

checkUserPermissions(d) ==
  IF d.grants # "all" THEN Step("User Permissions", "error")
  ELSE Step("User Permissions", "success")

fixBinlogFormat(d) ==
  IF d.setOk THEN Step("Fix Binlog Format", "success")
  ELSE Step("Fix Binlog Format", "error")

fixBinlogRowImage(d) ==
  IF d.setOk THEN Step("Fix Binlog Row Image", "success")
  ELSE Step("Fix Binlog Row Image", "error")

fixUserPermissions(d) ==
  IF d.grantOk THEN Step("Fix User Permissions", "success")
  ELSE Step("Fix User Permissions", "error")

\* Fault: validate returns at the first check in error.
MySQLValidateShortCircuit(d) ==
  IF ~d.connect
    THEN [isReady |-> FALSE, results |-> <<ConnectionFailed>>]
    ELSE IF checkBinlogFormat(d).status = "error"
    THEN [isReady |-> FALSE, results |-> <<ConnectionOk, checkBinlogFormat(d)>>]
    ELSE IF checkBinlogRowImage(d).status = "error"
    THEN [isReady |-> FALSE,
          results |-> <<ConnectionOk, checkBinlogFormat(d), checkBinlogRowImage(d)>>]
    ELSE LET results == <<ConnectionOk, checkBinlogFormat(d), checkBinlogRowImage(d),
                          checkUserPermissions(d)>>
         IN  [isReady |-> ~HasError(results), results |-> results]

\* validate, handlers/index.ts:253-315.
MySQLValidate(d) ==
  IF ~d.connect
    THEN [isReady |-> FALSE, results |-> <<ConnectionFailed>>]
    ELSE LET results == <<ConnectionOk, checkBinlogFormat(d), checkBinlogRowImage(d),
                          checkUserPermissions(d)>>
         IN  [isReady |-> ~HasError(results), results |-> results]

\* The database fix leaves behind: SET GLOBAL and GRANT, where they succeed.
MySQLFixDb(d) ==
  IF ~d.connect THEN d
  ELSE [d EXCEPT
          !.binlog_format =
             IF checkBinlogFormat(d).status = "error" /\ d.setOk THEN "ROW" ELSE @,
          !.binlog_row_image =
             IF checkBinlogRowImage(d).status = "error" /\ d.setOk THEN "FULL" ELSE @,
          !.grants =
             IF checkUserPermissions(d).status = "error" /\ d.grantOk THEN "all" ELSE @]

\* What the connection that ran the fixes reads afterwards.
MySQLView(d) == IF d.fixVisible THEN MySQLFixDb(d) ELSE d

\* Fault: fix returns the report of the re-run instead of its own results.
MySQLFixSecondPass(d) ==
  IF ~d.connect
    THEN [isReady |-> FALSE, results |-> <<ConnectionFailed>>]
    ELSE MySQLValidate(MySQLView(d))

\* fix, handlers/index.ts:320-417.
MySQLFix(d) ==
  IF ~d.connect
    THEN [isReady |-> FALSE, results |-> <<ConnectionFailed>>]
    ELSE LET results == <<ConnectionOk>>
                 \o CheckAndFix(checkBinlogFormat(d), fixBinlogFormat(d))
                 \o CheckAndFix(checkBinlogRowImage(d), fixBinlogRowImage(d))
                 \o CheckAndFix(checkUserPermissions(d), fixUserPermissions(d))
             v == MySQLView(d)
             final == <<checkBinlogFormat(v), checkBinlogRowImage(v),
                        checkUserPermissions(v)>>
             hasErrors == HasError(final)
         IN  [isReady |-> ~hasErrors, results |-> results]

\* ---- getDatabaseHandler(dbType), handlers/index.ts:16-29

Validate(d) == IF d.engine = "postgres" THEN PGValidate(d) ELSE MySQLValidate(d)

Fix(d) == IF d.engine = "postgres" THEN PGFix(d) ELSE MySQLFix(d)

FixDb(d) == IF d.engine = "postgres" THEN PGFixDb(d) ELSE MySQLFixDb(d)

\* What the connection that ran fix reads of the database afterwards.
FixView(d) == IF d.engine = "postgres" THEN PGFixDb(d) ELSE MySQLView(d)

NoReport == [isReady |-> FALSE, results |-> <<>>]

HandlerIdle ==
  /\ dbBefore = [engine |-> "none"]
  /\ report = NoReport
  /\ lastOp = "none"

HandlerInit ==
  /\ db \in Dbs
  /\ HandlerIdle

\* validateConnection, router/index.ts:226-245.
HValidate ==
  /\ report' = Validate(db)
  /\ lastOp' = "validate"
  /\ dbBefore' = db
  /\ db' = db

\* fixConnectionConfig, router/index.ts:248-267.
HFix ==
  /\ report' = Fix(db)
  /\ lastOp' = "fix"
  /\ dbBefore' = db
  /\ db' = FixDb(db)

\* The operator restarts PostgreSQL: the settings written by ALTER SYSTEM
\* take effect.
HRestart ==
  /\ db.engine = "postgres"
  /\ db.pending # {}
  /\ db' = [db EXCEPT
              !.wal_level = IF "wal_level" \in db.pending THEN "logical" ELSE @,
              !.max_wal_senders = IF "max_wal_senders" \in db.pending THEN 10 ELSE @,
              !.max_replication_slots =
                 IF "max_replication_slots" \in db.pending THEN 10 ELSE @,
              !.pending = {}]
  /\ UNCHANGED <<dbBefore, report, lastOp>>

(***************************************************************************)
(*                       THE CONNECTOR LIFECYCLE                           *)
(***************************************************************************)

Procs == 1..MaxProcs
Ids == 1..MaxIds

\* A Connection (part_007:38-51): its id and, of the rest, its dbType.
Profiles == [id : Ids, dbType : {"mysql", "postgres"}]

NoProfile == [id |-> 0, dbType |-> "none"]

\* part_007:57-59.
getConnectorName(connection) == connection.id

\* The databases saveConnector may find behind a profile.
SourceDbs(dbType) ==
  {d \in Dbs : /\ d.engine = dbType
               /\ d.engine = "postgres" =>
                    /\ d.alterOk /\ d.max_wal_senders = 10
                    /\ d.max_replication_slots = 10
               /\ d.engine = "mysql" =>
                    /\ d.setOk /\ d.grantOk /\ d.fixVisible
                    /\ d.binlog_row_image = "FULL"}

\* What fetch may answer.  Status 0 stands for a fetch that throws (the
\* gateway cannot be reached).  Kafka Connect answers truthfully or fails.
GetResponses(name) == {IF jobs[name] # NoProfile THEN 200 ELSE 404} \cup {500, 0}
PutResponses(name) == {200, 500, 0}
PostResponses(name) == {IF jobs[name] = NoProfile THEN 201 ELSE 409} \cup {500, 0}
DeleteResponses(name) == {IF jobs[name] # NoProfile THEN 204 ELSE 404} \cup {500, 0}

\* Response.ok
ResponseOk(status) == status \in 200..299

NoCall ==
  [op |-> "none", profile |-> NoProfile, prepared |-> FALSE, validated |-> "no",
   report |-> NoReport, sent |-> FALSE, wrote |-> FALSE, unlinked |-> FALSE,
   req |-> "none", status |-> 0, result |-> "none", steps |-> <<>>,
   fetches |-> <<>>]

LifecycleStart ==
  /\ files = [i \in Ids |-> NoProfile]
  /\ jobs = [i \in Ids |-> NoProfile]
  /\ lpc = [p \in Procs |-> "idle"]
  /\ call = [p \in Procs |-> NoCall]

\* The failed steps the error of saveConnector enumerates (part_005:573-576).
RECURSIVE ErrorSteps(_)
ErrorSteps(results) ==
  IF results = <<>> THEN <<>>
  ELSE (IF Head(results).status = "error" THEN <<Head(results).step>> ELSE <<>>)
       \o ErrorSteps(Tail(results))

\* Fault: the report is not looked at.
ProceedAlways(r) == TRUE

\* part_005:572: saveConnector goes on only with a ready report.
ProceedAfterValidate(r) == r.isReady

\* One fetch of setupDebeziumConnector and the status it was answered with:
\* the GET of part_005:450, the PUT of 456-466, the POST of 502-509.
Fetch(method, name, status) ==
  [method |-> method,
   path |-> IF method = "PUT" THEN <<"connectors", name, "config">>
            ELSE IF method = "POST" THEN <<"connectors">>
            ELSE <<"connectors", name>>,
   body |-> IF method = "PUT" THEN "config"
            ELSE IF method = "POST" THEN "name,config"
            ELSE "none",
   status |-> status]

\* Fault: whatever is not found to exist is created.
CheckOutcomeCreateUnlessOk(status) ==
  IF ResponseOk(status) THEN "update" ELSE "create"

\* part_005:452, 498, 541: what setupDebeziumConnector does with the answer
\* to its GET.
CheckOutcome(status) ==
  IF ResponseOk(status) THEN "update"
  ELSE IF status = 404 THEN "create"
  ELSE "throw"

\* Fault: the answer to the PUT or POST is not looked at.
WriteOutcomeIgnoreStatus(status) == "done"

\* part_005:468, 511: what it does with the answer to its PUT or POST.
WriteOutcome(status) == IF ~ResponseOk(status) THEN "throw" ELSE "done"

\* saveConnectorData is called (router/index.ts:193-198).
SaveStart(p, profile) ==
  /\ lpc[p] = "idle"
  /\ lpc' = [lpc EXCEPT ![p] = "prepare"]
  /\ call' = [call EXCEPT ![p] = [NoCall EXCEPT !.op = "save", !.profile = profile]]
  /\ UNCHANGED <<files, jobs>>

\* handler.prepareForConnector, router/index.ts:200-211: whatever it throws
\* is logged and the call goes on to saveConnector.
SavePrepare(p) ==
  /\ lpc[p] = "prepare"
  /\ lpc' = [lpc EXCEPT ![p] = "validate"]
  /\ call' = [call EXCEPT ![p].prepared = TRUE]
  /\ UNCHANGED <<files, jobs>>

\* saveConnector, part_005:557-582: validate, and throw unless ready.
SaveValidate(p) ==
  /\ lpc[p] = "validate"
  /\ \E d \in SourceDbs(call[p].profile.dbType) :
       LET validationReport == Validate(d) IN
       IF ProceedAfterValidate(validationReport)
         THEN /\ lpc' = [lpc EXCEPT ![p] = "check"]
              /\ call' = [call EXCEPT ![p].validated = "ready",
                                      ![p].report = validationReport]
         ELSE /\ lpc' = [lpc EXCEPT ![p] = "idle"]
              /\ call' = [call EXCEPT ![p].validated = "notready",
                                      ![p].report = validationReport,
                                      ![p].result = "ValidationError",
                                      ![p].steps = ErrorSteps(validationReport.results)]
  /\ UNCHANGED <<files, jobs>>

\* setupDebeziumConnector, part_005:450-546: the GET by connector name.
SaveCheck(p) ==
  /\ lpc[p] = "check"
  /\ \E status \in GetResponses(getConnectorName(call[p].profile)) :
       /\ lpc' = [lpc EXCEPT ![p] =
                    IF CheckOutcome(status) = "throw" THEN "idle"
                    ELSE CheckOutcome(status)]
       /\ call' = [call EXCEPT ![p].sent = TRUE, ![p].req = "GET",
                               ![p].status = status,
                               ![p].fetches =
                                 Append(@, Fetch("GET", getConnectorName(call[p].profile),
                                                 status)),
                               ![p].result = IF CheckOutcome(status) = "throw"
                                               THEN "RegistrationError" ELSE @]
  /\ UNCHANGED <<files, jobs>>

\* The PUT or POST is answered (part_005:456-497, 502-540); with an answer
\* that is ok setupDebeziumConnector returns and saveConnector writes the
\* file (part_005:588-596).
SaveWrite(p, req, status) ==
  LET connector == call[p].profile
      name == getConnectorName(connector) IN
  /\ jobs' = IF ResponseOk(status) THEN [jobs EXCEPT ![name] = connector] ELSE jobs
  /\ lpc' = [lpc EXCEPT ![p] = "idle"]
  /\ IF WriteOutcome(status) = "throw"
       THEN /\ call' = [call EXCEPT ![p].req = req, ![p].status = status,
                                    ![p].fetches = Append(@, Fetch(req, name, status)),
                                    ![p].result = "RegistrationError"]
            /\ UNCHANGED files
       ELSE /\ call' = [call EXCEPT ![p].req = req, ![p].status = status,
                                    ![p].fetches = Append(@, Fetch(req, name, status)),
                                    ![p].wrote = TRUE, ![p].result = "ok"]
            /\ files' = [files EXCEPT ![connector.id] = connector]

SaveUpdate(p) ==
  /\ lpc[p] = "update"
  /\ \E status \in PutResponses(getConnectorName(call[p].profile)) :
       SaveWrite(p, "PUT", status)

SaveCreate(p) ==
  /\ lpc[p] = "create"
  /\ \E status \in PostResponses(getConnectorName(call[p].profile)) :
       SaveWrite(p, "POST", status)

\* part_005:611-635: what deleteDebeziumConnector does with the answer to
\* its GET and with the answer to its DELETE.
DeleteCheckOutcome(status) ==
  IF ResponseOk(status) THEN "delete"
  ELSE IF status = 404 THEN "return"
  ELSE "throw"

DeleteDeleteOutcome(status) ==
  IF status = 204 \/ ResponseOk(status) THEN "return" ELSE "throw"

\* Fault: what deleteDebeziumConnector throws reaches the caller.
CleanupRethrown(cleanup) == IF cleanup = "throw" THEN "CleanupError" ELSE "ok"

\* part_005:668-675: deleteConnector logs whatever the cleanup throws and
\* returns.
CleanupResult(cleanup) == "ok"

\* Fault: the gateway is asked first and the file is left for later.
DeleteStartGatewayFirst(p, id) ==
  /\ lpc[p] = "idle"
  /\ IF files[id] = NoProfile
       THEN /\ call' = [call EXCEPT ![p] =
                          [NoCall EXCEPT !.op = "delete", !.profile.id = id,
                                         !.result = "NotFound"]]
            /\ UNCHANGED lpc
       ELSE /\ call' = [call EXCEPT ![p] =
                          [NoCall EXCEPT !.op = "delete", !.profile = files[id]]]
            /\ lpc' = [lpc EXCEPT ![p] = "delCheck"]
  /\ UNCHANGED <<files, jobs>>

\* deleteConnector, part_005:645-670, up to its first await: the file must
\* exist; it is read for the connector name and unlinked.
DeleteStart(p, id) ==
  /\ lpc[p] = "idle"
  /\ IF files[id] = NoProfile
       THEN /\ call' = [call EXCEPT ![p] =
                          [NoCall EXCEPT !.op = "delete", !.profile.id = id,
                                         !.result = "NotFound"]]
            /\ UNCHANGED <<files, lpc>>
       ELSE /\ call' = [call EXCEPT ![p] =
                          [NoCall EXCEPT !.op = "delete", !.profile = files[id],
                                         !.unlinked = TRUE]]
            /\ files' = [files EXCEPT ![id] = NoProfile]
            /\ lpc' = [lpc EXCEPT ![p] = "delCheck"]
  /\ UNCHANGED jobs

\* deleteDebeziumConnector, part_005:609-635: the GET by connector name.
\* Whatever it throws deleteConnector logs (part_005:669-674).
DeleteCheck(p) ==
  /\ lpc[p] = "delCheck"
  /\ \E status \in GetResponses(getConnectorName(call[p].profile)) :
       /\ lpc' = [lpc EXCEPT ![p] = IF DeleteCheckOutcome(status) = "delete"
                                       THEN "delDelete" ELSE "idle"]
       /\ call' = [call EXCEPT ![p].sent = TRUE, ![p].req = "GET",
                               ![p].status = status,
                               ![p].result =
                                  IF DeleteCheckOutcome(status) = "delete" THEN @
                                  ELSE CleanupResult(DeleteCheckOutcome(status))]
  /\ UNCHANGED <<files, jobs>>

\* deleteDebeziumConnector, part_005:613-627: the DELETE.
DeleteDelete(p) ==
  /\ lpc[p] = "delDelete"
  /\ \E status \in DeleteResponses(getConnectorName(call[p].profile)) :
       /\ jobs' = IF ResponseOk(status)
                    THEN [jobs EXCEPT ![getConnectorName(call[p].profile)] = NoProfile]
                    ELSE jobs
       /\ call' = [call EXCEPT ![p].req = "DELETE", ![p].status = status,
                               ![p].result = CleanupResult(DeleteDeleteOutcome(status))]
  /\ lpc' = [lpc EXCEPT ![p] = "idle"]
  /\ UNCHANGED files

(***************************************************************************)
(*                       THE ENVELOPE CLASSIFIER                           *)
(***************************************************************************)

\* What the schemas read of a value payload.  Each field stands for the
\* classes of JSON the schemas tell apart: "missing" is a key that is not
\* there, "bad" a value the field's schema rejects.
Ops == {"c", "u", "d", "r", "t"}

NoFields ==
  [kind |-> "undefined", before |-> "missing", after |-> "missing",
   source |-> "missing", op |-> "missing", ts_ms |-> "missing",
   transaction |-> "missing", tableChanges |-> "missing"]

ValuePayloads ==
  [kind : {"object"}, before : {"record", "null", "missing"},
   after : {"record", "missing"}, source : {"ok", "bad"},
   op : Ops \cup {"x", "missing"}, ts_ms : {"number", "missing"},
   transaction : {"missing", "bad"}, tableChanges : {"missing", "array", "bad"}]
  \cup {NoFields, [NoFields EXCEPT !.kind = "scalar"]}

\* message.value: absent (null or empty), not JSON, JSON that is no object,
\* or an object with the payload above.
Values ==
  {[raw |-> r, json |-> "none", payload |-> NoFields] : r \in {"absent", "garbage"}}
  \cup {[raw |-> "json", json |-> "nonobject", payload |-> NoFields]}
  \cup [raw : {"json"}, json : {"object"}, payload : ValuePayloads]

\* message.key, likewise; of its payload the classifier reads whether it is
\* something `in` can be applied to and what its databaseName is.
KeyPayloads ==
  {"undefined", "null", "scalar", "object", "databaseName:string",
   "databaseName:number"}

Keys ==
  {[raw |-> r, json |-> "none", payload |-> "undefined"] : r \in {"absent", "garbage"}}
  \cup {[raw |-> "json", json |-> "nonobject", payload |-> "undefined"]}
  \cup [raw : {"json"}, json : {"object"}, payload : KeyPayloads]

Messages == [key : Keys, value : Values]

\* part_006:135-158.
DebeziumSourceSchema(source) == source = "ok"

\* part_006:163-170: nullable and optional.
DebeziumTransactionSchema(transaction) == transaction # "bad"

\* part_006:176-189.  z.object keeps the keys it declares and drops the rest.
DebeziumValuePayloadSchema(p) ==
  /\ p.kind = "object"
  /\ p.before \in {"record", "null"}
  /\ p.after \in {"record", "null"}
  /\ DebeziumSourceSchema(p.source)
  /\ p.op \in Ops
  /\ p.ts_ms = "number"
  /\ DebeziumTransactionSchema(p.transaction)

DebeziumValuePayloadData(p) == [p EXCEPT !.tableChanges = "missing"]

\* part_006:205-212: only source and ts_ms are required.
DebeziumSchemaChangePayloadSchema(p) ==
  /\ p.kind = "object"
  /\ DebeziumSourceSchema(p.source)
  /\ p.ts_ms = "number"
  /\ p.tableChanges \in {"missing", "array"}

DebeziumSchemaChangePayloadData(p) ==
  [p EXCEPT !.before = "missing", !.after = "missing", !.op = "missing",
            !.transaction = "missing"]

\* part_006:230-237, 242-251: { schema: any, payload }.
DebeziumValueMessageSchema(v) ==
  v.json = "object" /\ DebeziumValuePayloadSchema(v.payload)

DebeziumSchemaChangeValueMessageSchema(v) ==
  v.json = "object" /\ DebeziumSchemaChangePayloadSchema(v.payload)

\* part_006:272-280: the first member of the union that accepts the value
\* gives the result.
DebeziumValueUnionSchema(v) ==
  IF DebeziumValueMessageSchema(v)
    THEN [success |-> TRUE, data |-> DebeziumValuePayloadData(v.payload)]
  ELSE IF DebeziumSchemaChangeValueMessageSchema(v)
    THEN [success |-> TRUE, data |-> DebeziumSchemaChangePayloadData(v.payload)]
  ELSE [success |-> FALSE, data |-> NoFields]

\* part_006:253-280: both members are { schema: any, payload: any }.
DebeziumKeyUnionSchema(k) ==
  [success |-> k.json = "object", data |-> k.payload]

NoOutcome ==
  [type |-> "none", parseError |-> "", payload |-> NoFields, onMessage |-> FALSE,
   threw |-> FALSE]

\* The three events eachMessage builds.  Only the first two are passed to
\* onMessage (part_006:538, 547); the call for an unknown event is commented
\* out (563, 575).
Parsed(data) ==
  [type |-> "parsed", parseError |-> "", payload |-> data, onMessage |-> TRUE,
   threw |-> FALSE]

SchemaChange(data) ==
  [type |-> "schema-change", parseError |-> "", payload |-> data, onMessage |-> TRUE,
   threw |-> FALSE]

\* Fault: the unknown event is passed on like the others.
UnknownDelivered(parseError) ==
  [type |-> "unknown", parseError |-> parseError, payload |-> NoFields,
   onMessage |-> TRUE, threw |-> FALSE]

Unknown(parseError) ==
  [type |-> "unknown", parseError |-> parseError, payload |-> NoFields,
   onMessage |-> FALSE, threw |-> FALSE]

\* Fault: what is thrown inside the handler leaves it.
Rethrown(message) ==
  [type |-> "none", parseError |-> "", payload |-> NoFields, onMessage |-> FALSE,
   threw |-> TRUE]

\* part_006:565-573: the catch block builds an unknown event from the error.
Caught(message) == Unknown(message)

\* eachMessage, part_006:494-577.
eachMessage(m) ==
  IF m.value.raw = "absent" THEN Caught("Empty value")
  ELSE IF m.key.raw = "absent" THEN Caught("Empty key")
  ELSE IF m.value.raw = "garbage" \/ m.key.raw = "garbage"
    THEN Caught("Unexpected token")
  ELSE LET valueResult == DebeziumValueUnionSchema(m.value)
           keyResult == DebeziumKeyUnionSchema(m.key)
           value == valueResult.data
           key == keyResult.data IN
       IF valueResult.success /\ keyResult.success
         THEN IF key \in {"undefined", "null", "scalar"}
                THEN Caught("Cannot use 'in' operator")
              ELSE IF key = "databaseName:string" THEN SchemaChange(value)
              ELSE IF value.op # "missing" THEN Parsed(value)
              ELSE Caught("Unknown message format")
         ELSE Unknown("Validation failed: ")

ClassifierStart ==
  /\ msg \in Messages
  /\ outcome = NoOutcome

\* The broker client calls eachMessage with the message.
EachMessage ==
  /\ outcome = NoOutcome
  /\ outcome' = eachMessage(msg)
  /\ msg' = msg

(***************************************************************************)
(*                      THE CAPTURE CONFIGURATION                          *)
(***************************************************************************)

Hosts == {"localhost", "127.0.0.1", "db.internal"}

Databases == {"shop", "crm"}

\* What getDebeziumConfig reads of a Connection (part_007:38-49).
Connections ==
  [id : Ids, dbType : {"mysql", "postgres"}, host : Hosts, port : {3306, 5432},
   database : Databases]

\* handlers/index.ts:433-439, part_004:477-483.
dbHostname(connector) ==
  IF connector.host = "localhost" \/ connector.host = "127.0.0.1"
    THEN "host.docker.internal"
    ELSE connector.host

\* MySQLHandler.getDebeziumConfig, handlers/index.ts:431-459.  `random` is
\* what Math.floor(Math.random() * 1000000) returns in this call (line 448).
MySQLgetDebeziumConfig(connector, random) ==
  [connectorClass |-> "io.debezium.connector.mysql.MySqlConnector",
   hostname |-> dbHostname(connector),
   port |-> connector.port,
   serverId |-> random,
   databaseList |-> connector.database,
   historyTopic |-> <<"schemahistory", connector.database>>,
   slotName |-> <<>>]

\* PostgreSQLHandler.getDebeziumConfig, part_004:475-503.
PGgetDebeziumConfig(connector) ==
  [connectorClass |-> "io.debezium.connector.postgresql.PostgresConnector",
   hostname |-> dbHostname(connector),
   port |-> connector.port,
   serverId |-> -1,
   databaseList |-> connector.database,
   historyTopic |-> <<>>,
   slotName |-> <<"debezium", connector.database>>]

getDebeziumConfig(connector, random) ==
  IF connector.dbType = "mysql" THEN MySQLgetDebeziumConfig(connector, random)
  ELSE PGgetDebeziumConfig(connector)

ConfigIdle ==
  config = [connector |-> [id |-> 0, dbType |-> "none", host |-> "", port |-> 0,
                           database |-> ""],
            configs |-> <<>>]

ConfigStart ==
  \E connector \in Connections : config = [connector |-> connector, configs |-> <<>>]

\* setupDebeziumConnector asks the handler for the configuration of the
\* connection (part_005:430): once at each create or update.
GetDebeziumConfig ==
  /\ Len(config.configs) < MaxInvocations
  /\ \E random \in 0..MaxRandom :
       config' = [config EXCEPT
                    !.configs = Append(@, getDebeziumConfig(config.connector, random))]

(***************************************************************************)
(*                         THE STREAM SESSIONS                             *)
(***************************************************************************)

TopicPrefixes == {"mysql-1", "postgres-1"}

\* router/index.ts:45: `cdc-stream-${Date.now()}`, with `now` the reading of
\* the millisecond clock at the call.
groupIdOf(now) == <<"cdc-stream", now>>

\* A call of the stream procedure: one session, one consumer under the group
\* named after the clock, subscribed to the all-changes topic of the source
\* (router/index.ts:25-70).
OpenSession ==
  /\ Len(sessions.groupIds) < MaxSessions
  /\ \E topicPrefix \in TopicPrefixes :
       sessions' = [sessions EXCEPT
                      !.groupIds = Append(@, [groupId |-> groupIdOf(sessions.clock),
                                              topic |-> <<topicPrefix, "all-changes">>])]

\* A millisecond passes.
Tick ==
  /\ sessions.clock < MaxClock
  /\ sessions' = [sessions EXCEPT !.clock = @ + 1]

(***************************************************************************)
(*                       THE CLIENT STREAM HOOK                            *)
(***************************************************************************)

\* What the hook reads of a CDCEvent: the fields of baseEvent,
\* part_006:500-506.  The stream of a source carries its all-changes topic.
StreamedEvents ==
  [topic : {<<prefix, "all-changes">> : prefix \in TopicPrefixes},
   partition : 0..MaxPartition, offset : 0..MaxOffset]

\* use-stream.ts:57: `${data.topic}-${data.offset}`.  An offset is a string
\* of digits, so the text after the last dash is the offset and what is
\* before it is the topic: the id is the pair, and the partition is not in it.
messageId(data) == <<data.topic, data.offset>>

\* useStream is mounted: the initial state (use-stream.ts:11-17) and the first
\* run of both effects, which starts the stream and clears what is empty.
HookStart ==
  \E topicPrefix \in TopicPrefixes :
    hook = [isStreaming |-> TRUE, isConnected |-> TRUE, isActive |-> TRUE,
            topicPrefix |-> topicPrefix, messages |-> <<>>,
            seenMessageIds |-> {}, skipped |-> {}]

\* One turn of the for-await loop of the active stream, use-stream.ts:53-73;
\* the server replays and redelivers as it likes.  (A stream whose effect
\* was cleaned up breaks at line 54 and adds nothing.)
Receive(data) ==
  /\ hook.isStreaming /\ hook.isActive /\ hook.isConnected
  /\ data.topic[1] = hook.topicPrefix
  /\ IF messageId(data) \in hook.seenMessageIds
       THEN \* lines 60-62; `skipped` remembers what was passed over
            hook' = [hook EXCEPT !.skipped = @ \cup {data}]
       ELSE hook' = [hook EXCEPT
                       !.seenMessageIds = @ \cup {messageId(data)},
                       !.messages = <<data>> \o @]

\* The stream ends or throws, use-stream.ts:74-85.
StreamEnds ==
  /\ hook.isStreaming /\ hook.isActive /\ hook.isConnected
  /\ hook' = [hook EXCEPT !.isConnected = FALSE]

\* stopStream, use-stream.ts:19-25, and the cleanup of the effect that the
\* change of isStreaming brings (89-92).
StopStream ==
  /\ hook.isStreaming
  /\ hook' = [hook EXCEPT !.isStreaming = FALSE, !.isConnected = FALSE,
                          !.isActive = FALSE]

\* startStreamManually, use-stream.ts:27-29, and the run of the effect that
\* the change of isStreaming brings (32-51).
StartStream ==
  /\ ~hook.isStreaming
  /\ hook' = [hook EXCEPT !.isStreaming = TRUE, !.isConnected = TRUE,
                          !.isActive = TRUE]

\* Fault: the set of seen ids is emptied and the list is kept.
ClearSeenOnly(h) == [h EXCEPT !.seenMessageIds = {}, !.skipped = {}]

\* clearMessages, use-stream.ts:100-103.
clearMessages(h) ==
  [h EXCEPT !.messages = <<>>, !.seenMessageIds = {}, !.skipped = {}]

ClearMessages ==
  hook' = clearMessages(hook)

\* The component passes another topicPrefix: the stream effect is cleaned up
\* and, if streaming, run again (32-93), then the messages are cleared
\* (96-98).
ChangeTopicPrefix(topicPrefix) ==
  /\ topicPrefix # hook.topicPrefix
  /\ hook' = clearMessages([hook EXCEPT
                              !.topicPrefix = topicPrefix,
                              !.isConnected = IF hook.isStreaming THEN TRUE ELSE @,
                              !.isActive = hook.isStreaming])

(***************************************************************************)
(*                     THE INFRASTRUCTURE WIDGET                           *)
(***************************************************************************)

\* The widget is mounted: the status query is loading and no mutation was
\* used (part_001:19-24, part_003:7-41).  `infra` and `docker` are what is
\* true of the machine, `data` is what the last status answer said (not
\* `loaded` while it is undefined); `available` stands for docker.available
\* and dockerCompose.available.
Mounted(infra, docker) ==
  [mounted |-> TRUE, infra |-> infra, docker |-> docker,
   isLoading |-> TRUE, error |-> FALSE,
   data |-> [loaded |-> FALSE, ready |-> FALSE, available |-> FALSE],
   start |-> "idle", stop |-> "idle", restart |-> "idle",
   operatorStopped |-> FALSE, autoStarts |-> 0]

WidgetStart ==
  \E infra \in {"running", "stopped"}, docker \in BOOLEAN :
    widget = Mounted(IF docker THEN infra ELSE "stopped", docker)

\* part_003:43-46.
isOperationPending(w) ==
  w.start = "pending" \/ w.stop = "pending" \/ w.restart = "pending"

\* The condition of the effect, part_001:27-35.
AutoStartCondition(w) ==
  /\ ~w.isLoading
  /\ w.data.loaded
  /\ ~w.data.ready
  /\ w.data.available
  /\ w.start = "idle"

\* The effect of part_001:26-38 runs after every render in which data,
\* isLoading or start changed, before anything else is handled.
AfterRender(w) ==
  IF AutoStartCondition(w)
    THEN [w EXCEPT !.start = "pending", !.autoStarts = @ + 1]
    ELSE w

\* The status query is answered (first load, 3 s poll or invalidation,
\* part_003:7-11): with the state of the machine, or with an error that
\* leaves the data as they were.
Refetch ==
  /\ widget.mounted
  /\ \E ok \in BOOLEAN :
       widget' = AfterRender(
         IF ok
           THEN [widget EXCEPT
                   !.isLoading = FALSE, !.error = FALSE,
                   !.data = [loaded |-> TRUE, ready |-> widget.infra = "running",
                             available |-> widget.docker]]
           ELSE [widget EXCEPT !.isLoading = FALSE, !.error = TRUE])

\* The buttons are rendered only past the loading, error and availability
\* branches of renderStatusContent, part_001:48-115.
ButtonsShown(w) ==
  /\ w.mounted
  /\ ~w.isLoading /\ ~isOperationPending(w)
  /\ ~w.error
  /\ w.data.loaded /\ w.data.available

\* The Start button, part_001:131-143.
ClickStart ==
  /\ ButtonsShown(widget) /\ ~widget.data.ready
  /\ widget' = AfterRender([widget EXCEPT !.start = "pending"])

\* The Stop button, part_001:181-194.
ClickStop ==
  /\ ButtonsShown(widget) /\ widget.data.ready
  /\ widget' = AfterRender([widget EXCEPT !.stop = "pending",
                                          !.operatorStopped = TRUE])

\* The Restart button, part_001:167-180.
ClickRestart ==
  /\ ButtonsShown(widget) /\ widget.data.ready
  /\ widget' = AfterRender([widget EXCEPT !.restart = "pending"])

\* A mutation settles (part_003:13-41); the invalidated status query is
\* answered by a later Refetch.  Nothing resets a mutation, so its status
\* is idle only until its first mutate.
StartSettles ==
  /\ widget.start = "pending"
  /\ \E ok \in BOOLEAN :
       widget' = AfterRender(
         [widget EXCEPT !.start = IF ok THEN "success" ELSE "error",
                        !.infra = IF ok /\ widget.docker THEN "running" ELSE @])

StopSettles ==
  /\ widget.stop = "pending"
  /\ \E ok \in BOOLEAN :
       widget' = AfterRender(
         [widget EXCEPT !.stop = IF ok THEN "success" ELSE "error",
                        !.infra = IF ok THEN "stopped" ELSE @])

RestartSettles ==
  /\ widget.restart = "pending"
  /\ \E ok \in BOOLEAN :
       widget' = AfterRender(
         [widget EXCEPT !.restart = IF ok THEN "success" ELSE "error",
                        !.infra = IF ok /\ widget.docker THEN "running" ELSE "stopped"])

\* The containers stop by themselves.
InfraStops ==
  /\ widget.mounted
  /\ widget.infra = "running" /\ ~isOperationPending(widget)
  /\ widget' = [widget EXCEPT !.infra = "stopped"]

\* The page is left and opened again: a new mount of the widget.
Remount ==
  /\ widget.mounted
  /\ ~isOperationPending(widget)
  /\ widget # Mounted(widget.infra, widget.docker)
  /\ widget' = Mounted(widget.infra, widget.docker)

(***************************************************************************)
(*                          THE SPECIFICATIONS                             *)
(***************************************************************************)

\* A database for the specifications that are not about the handlers.
SomeDb == CHOOSE d \in PostgresDbs : d.connect

\* No message at hand, in the specifications that are not about the
\* classifier.
ClassifierIdle ==
  /\ msg = [key |-> [raw |-> "absent", json |-> "none", payload |-> "undefined"],
            value |-> [raw |-> "absent", json |-> "none", payload |-> NoFields]]
  /\ outcome = NoOutcome

SessionIdle == sessions = [clock |-> 0, groupIds |-> <<>>]

HookIdle ==
  hook = [isStreaming |-> FALSE, isConnected |-> FALSE, isActive |-> FALSE,
          topicPrefix |-> "", messages |-> <<>>, seenMessageIds |-> {},
          skipped |-> {}]

WidgetIdle ==
  widget = [mounted |-> FALSE, infra |-> "stopped", docker |-> FALSE,
            isLoading |-> TRUE, error |-> FALSE,
            data |-> [loaded |-> FALSE, ready |-> FALSE, available |-> FALSE],
            start |-> "idle", stop |-> "idle", restart |-> "idle",
            operatorStopped |-> FALSE, autoStarts |-> 0]

\* The parts that stand still in a specification about the server side.
FrontIdle == ConfigIdle /\ SessionIdle /\ HookIdle /\ WidgetIdle

\* The server side, standing still in a specification about another part.
BackIdle ==
  /\ RelayStart
  /\ db = SomeDb /\ HandlerIdle
  /\ LifecycleStart
  /\ ClassifierIdle

RelayInit ==
  /\ RelayStart
  /\ db = SomeDb /\ HandlerIdle
  /\ LifecycleStart
  /\ ClassifierIdle
  /\ FrontIdle

RelayOnly == UNCHANGED <<handlerVars, lifecycleVars, classifierVars, frontVars>>

RelayNext ==
  \/ ConsumerNext /\ RelayOnly
  \/ ConsumerCancel /\ RelayOnly
  \/ GenConnect /\ RelayOnly
  \/ GenLoop /\ RelayOnly
  \/ GenResume /\ RelayOnly
  \/ GenFinally /\ RelayOnly
  \/ \E event \in Events : Callback(event) /\ RelayOnly
  \/ TimerFire /\ RelayOnly
  \/ BrokerDie /\ RelayOnly

RelaySpec == RelayInit /\ [][RelayNext]_vars

\* The event loop runs every ready continuation and every armed timer; the
\* broker and the transport owe the relay nothing.
FairRelaySpec ==
  /\ RelaySpec
  /\ WF_vars(GenConnect /\ RelayOnly)
  /\ WF_vars(GenLoop /\ RelayOnly)
  /\ WF_vars(GenResume /\ RelayOnly)
  /\ WF_vars(GenFinally /\ RelayOnly)
  /\ WF_vars(TimerFire /\ RelayOnly)

\* A consumer that keeps pulling: the transport calls next() again after
\* each value it received, for as long as it does not cancel.
PullingRelaySpec ==
  /\ FairRelaySpec
  /\ WF_vars(ConsumerNext /\ RelayOnly)

HandlerSpecInit ==
  /\ HandlerInit
  /\ RelayStart
  /\ LifecycleStart
  /\ ClassifierIdle
  /\ FrontIdle

HandlerOnly == UNCHANGED <<relayVars, lifecycleVars, classifierVars, frontVars>>

HandlerNext ==
  \/ HValidate /\ HandlerOnly
  \/ HFix /\ HandlerOnly
  \/ HRestart /\ HandlerOnly

HandlerSpec == HandlerSpecInit /\ [][HandlerNext]_vars

LifecycleInit ==
  /\ LifecycleStart
  /\ RelayStart
  /\ db = SomeDb /\ HandlerIdle
  /\ ClassifierIdle
  /\ FrontIdle

LifecycleOnly == UNCHANGED <<relayVars, handlerVars, classifierVars, frontVars>>

LifecycleNext ==
  \/ \E p \in Procs, profile \in Profiles : SaveStart(p, profile) /\ LifecycleOnly
  \/ \E p \in Procs : SavePrepare(p) /\ LifecycleOnly
  \/ \E p \in Procs : SaveValidate(p) /\ LifecycleOnly
  \/ \E p \in Procs : SaveCheck(p) /\ LifecycleOnly
  \/ \E p \in Procs : SaveUpdate(p) /\ LifecycleOnly
  \/ \E p \in Procs : SaveCreate(p) /\ LifecycleOnly
  \/ \E p \in Procs, id \in Ids : DeleteStart(p, id) /\ LifecycleOnly
  \/ \E p \in Procs : DeleteCheck(p) /\ LifecycleOnly
  \/ \E p \in Procs : DeleteDelete(p) /\ LifecycleOnly

LifecycleSpec == LifecycleInit /\ [][LifecycleNext]_vars

ClassifierInit ==
  /\ ClassifierStart
  /\ RelayStart
  /\ db = SomeDb /\ HandlerIdle
  /\ LifecycleStart
  /\ FrontIdle

ClassifierOnly == UNCHANGED <<relayVars, handlerVars, lifecycleVars, frontVars>>

ClassifierNext ==
  \/ EachMessage /\ ClassifierOnly

ClassifierSpec == ClassifierInit /\ [][ClassifierNext]_vars

BackOnly == UNCHANGED <<relayVars, handlerVars, lifecycleVars, classifierVars>>

ConfigInit ==
  /\ ConfigStart
  /\ BackIdle
  /\ SessionIdle /\ HookIdle /\ WidgetIdle

ConfigOnly == BackOnly /\ UNCHANGED <<sessions, hook, widget>>

ConfigNext ==
  \/ GetDebeziumConfig /\ ConfigOnly

ConfigSpec == ConfigInit /\ [][ConfigNext]_vars

SessionInit ==
  /\ SessionIdle
  /\ BackIdle
  /\ ConfigIdle /\ HookIdle /\ WidgetIdle

SessionOnly == BackOnly /\ UNCHANGED <<config, hook, widget>>

SessionNext ==
  \/ OpenSession /\ SessionOnly
  \/ Tick /\ SessionOnly

SessionSpec == SessionInit /\ [][SessionNext]_vars

HookInit ==
  /\ HookStart
  /\ BackIdle
  /\ ConfigIdle /\ SessionIdle /\ WidgetIdle

HookOnly == BackOnly /\ UNCHANGED <<config, sessions, widget>>

HookNext ==
  \/ \E data \in StreamedEvents : Receive(data) /\ HookOnly
  \/ StreamEnds /\ HookOnly
  \/ StopStream /\ HookOnly
  \/ StartStream /\ HookOnly
  \/ ClearMessages /\ HookOnly
  \/ \E topicPrefix \in TopicPrefixes : ChangeTopicPrefix(topicPrefix) /\ HookOnly

HookSpec == HookInit /\ [][HookNext]_vars

WidgetInit ==
  /\ WidgetStart
  /\ BackIdle
  /\ ConfigIdle /\ SessionIdle /\ HookIdle

WidgetOnly == BackOnly /\ UNCHANGED <<config, sessions, hook>>

WidgetNext ==
  \/ Refetch /\ WidgetOnly
  \/ ClickStart /\ WidgetOnly
  \/ ClickStop /\ WidgetOnly
  \/ ClickRestart /\ WidgetOnly
  \/ StartSettles /\ WidgetOnly
  \/ StopSettles /\ WidgetOnly
  \/ RestartSettles /\ WidgetOnly
  \/ InfraStops /\ WidgetOnly
  \/ Remount /\ WidgetOnly

WidgetSpec == WidgetInit /\ [][WidgetNext]_vars

Init == RelayInit

Next == RelayNext \/ HandlerNext \/ LifecycleNext \/ ClassifierNext \/ ConfigNext
          \/ SessionNext \/ HookNext \/ WidgetNext

Spec == Init /\ [][Next]_vars

(***************************************************************************)
(*                     CLAIMS ABOUT THE STREAM RELAY                       *)
(***************************************************************************)

YieldedEvents == [i \in 1..Len(yielded) |-> yielded[i].event]

\* C1, as stated: within one session no (topic, offset) is yielded twice,
\* even when the delivery callback is invoked again with the same
\* (topic, offset).
C1_YieldedAtMostOnce ==
  \A i, j \in 1..Len(yielded) : i # j => yielded[i].event # yielded[j].event

\* C1, amended: the handler removes no redelivery, it yields every event the
\* callback received: a (topic, offset) is yielded at most as many times as
\* the callback was invoked with it.
C1_YieldsNeverExceedDeliveries ==
  \A e \in Events : Count(YieldedEvents, e) <= Count(delivered, e)

\* C1, witness: an event that the broker delivered twice was yielded twice.
C1_RedeliveryYieldedTwice ==
  \E i, j \in 1..Len(yielded) : i < j /\ yielded[i].event = yielded[j].event

\* C5: after the consumer cancels, the relay eventually disconnects the
\* broker consumer and the sequence ends, whether or not an event arrives
\* (stated for a broker subscription that stays alive).
C5_CancelLeadsToDisconnect ==
  (cancelMark.set /\ brokerAlive)
    ~> ((pc \in {"done", "failed"} /\ consumer # "running") \/ ~brokerAlive)

\* C6: once the generator has been resumed by the cancellation it yields
\* nothing more, and of the events yielded after return() was called each
\* answers a next() that was pending when it was called.
C6_NoYieldAfterCancelObserved ==
  [][ /\ cancelObserved => yielded' = yielded
      /\ cancelMark'.set =>
           Len(yielded') <= cancelMark'.yielded + cancelMark'.pending ]_vars

\* C6, witness: the session was cancelled with a next() in flight, that
\* next() was answered by an event, and the session ended with an event
\* still in the queue.
C6_CancelledWithEventsLeft ==
  /\ cancelObserved
  /\ pc = "done"
  /\ Len(yielded) > cancelMark.yielded
  /\ messageQueue # <<>>

\* C7: the events are yielded in the order in which the callback received
\* them, whichever path each took: what was yielded is a prefix of what was
\* delivered.
C7_YieldOrderIsDeliveryOrder ==
  /\ Len(yielded) <= Len(delivered)
  /\ \A i \in 1..Len(yielded) : yielded[i].event = delivered[i]

\* C7, witness: two different events were yielded, the first handed to the
\* waiting reader and the second taken from the queue, and a third, taken
\* from the queue, was followed by a handoff.
C7_BothPathsYielded ==
  /\ Len(yielded) >= 3
  /\ yielded[1].via = "handoff" /\ yielded[2].via = "queue"
  /\ yielded[3].via = "handoff"
  /\ yielded[1].event # yielded[2].event
  /\ yielded[2].event # yielded[3].event

\* The event the callback handed to the waiting reader and the reader has
\* not yielded yet.
HandedOver ==
  IF pc = "waiting" /\ race.settled /\ race.value # NoEvent THEN <<race.value>>
  ELSE <<>>

\* A step of the callback with `event`: the reader that waits gets it,
\* otherwise the queue does, and the generator is where it was.
HandoffStep ==
  Len(delivered') = Len(delivered) + 1 =>
    LET event == delivered'[Len(delivered')] IN
    /\ IF messageResolver # "null"
         THEN race' = [settled |-> TRUE, value |-> event] /\ messageQueue' = messageQueue
         ELSE messageQueue' = Append(messageQueue, event) /\ race' = race
    /\ pc' = pc /\ requests' = requests /\ yielded' = yielded

\* C23: the handoff loses and duplicates nothing.  Every event passed to the
\* callback goes to the waiting reader or to the end of the queue in one step
\* of the callback; the events delivered are, in order, those yielded, the
\* one handed over and those queued; and with a consumer that keeps pulling
\* and does not cancel, the k-th event delivered is eventually the k-th
\* event yielded.
C23_HandoffLosesNothing ==
  /\ [][HandoffStep]_vars
  /\ [](delivered = YieldedEvents \o HandedOver \o messageQueue)
  /\ \A k \in 1..MaxDeliveries :
       (Len(delivered) >= k) ~> (Len(yielded) >= k \/ cancelMark.set)

\* C23, witness: with no cancellation, every delivery allowed was made and
\* yielded, the first after waiting in the queue behind a reader that was
\* busy, a later one handed to the waiting reader.
C23_AllDeliveredYielded ==
  /\ ~cancelMark.set
  /\ Len(delivered) = MaxDeliveries
  /\ Len(yielded) = MaxDeliveries
  /\ yielded[1].via = "queue"
  /\ \E i \in 2..Len(yielded) : yielded[i].via = "handoff"

\* C30: a wait of the relay ends only when an event is handed over or when
\* the tick armed for that same wait fires (never by a tick armed for an
\* earlier wait), and a tick that fires discards no event.
C30_WaitEndsByEventOrOwnTick ==
  [][ /\ (pc = "waiting" /\ ~race.settled /\ race'.settled) =>
          \/ race'.value # NoEvent
          \/ timers # <<>> /\ Head(timers) /\ timers' = Tail(timers)
      /\ Len(timers') < Len(timers) =>
          /\ messageQueue' = messageQueue
          /\ race.settled => race' = race ]_vars

\* C8: once the broker subscription has died the relay does not go on
\* waiting: the next turn of its loop ends the sequence with the error
\* instead of starting another wait.
C8_DeadSubscriptionEndsSession ==
  [][ (~brokerAlive /\ pc = "loop") => pc' # "waiting" ]_vars

(***************************************************************************)
(*                 CLAIMS ABOUT THE CONNECTOR LIFECYCLE                    *)
(***************************************************************************)

\* The registration of a saveConnector call failed: the GET answered neither
\* 2xx nor 404, or the PUT or POST answered non-2xx, or the fetch threw.
RegistrationFailed(c) ==
  /\ c.op = "save"
  /\ \/ c.req = "GET" /\ ~(c.status \in 200..299) /\ c.status # 404
     \/ c.req \in {"PUT", "POST"} /\ ~(c.status \in 200..299)

\* C2: a saveConnector call whose registration fails raises an error, and the
\* step that ends it leaves the profile store as it was; the call has written
\* no profile.
C2_FailedRegistrationWritesNothing ==
  [][ \A p \in Procs :
        (lpc[p] # "idle" /\ lpc'[p] = "idle" /\ RegistrationFailed(call'[p]))
          => /\ call'[p].result = "RegistrationError"
             /\ ~call'[p].wrote
             /\ files' = files ]_vars

\* C2, witness: an update of a persisted profile was answered 500 on its PUT
\* and the profile persisted before is still the one on disk.
C2_UpdateFailedOldProfileKept ==
  \E p \in Procs :
    /\ lpc[p] = "idle"
    /\ call[p].req = "PUT" /\ call[p].status = 500
    /\ call[p].result = "RegistrationError"
    /\ files[call[p].profile.id] # NoProfile
    /\ files[call[p].profile.id] # call[p].profile

\* C3: a create/update call sends a request to the gateway or writes a
\* profile only after validate returned ready in that call; when validate
\* returns not ready the call has ended with the error that names exactly
\* the steps in error, having sent and written nothing.
C3_NothingBeforeReadyValidation ==
  \A p \in Procs :
    call[p].op = "save" =>
      /\ (call[p].sent \/ call[p].wrote) =>
           (call[p].validated = "ready" /\ call[p].report.isReady)
      /\ call[p].validated = "notready" =>
           /\ lpc[p] = "idle"
           /\ call[p].result = "ValidationError"
           /\ ~call[p].sent /\ ~call[p].wrote
           /\ \A i \in 1..Len(call[p].report.results) :
                (call[p].report.results[i].status = "error")
                  <=> (\E k \in 1..Len(call[p].steps) :
                         call[p].steps[k] = call[p].report.results[i].step)
           /\ call[p].steps # <<>>

\* C3, witness: a call was rejected by a validation with two steps in error
\* while the other call is talking to the gateway.
C3_RejectedByValidation ==
  \E p, q \in Procs :
    /\ call[p].validated = "notready"
    /\ Len(call[p].steps) = 2
    /\ call[q].op = "save" /\ call[q].sent /\ lpc[q] # "idle"

\* C4: every persisted profile has a registered capture job, under every
\* interleaving of create/update and delete calls.
C4_NoProfileWithoutJob ==
  \A id \in Ids : files[id] # NoProfile => jobs[id] # NoProfile

\* C11: a deleteConnector call on an existing profile returns without raising
\* whatever the gateway answers to its GET or to its DELETE, and none of its
\* steps after the unlink writes the profile store: the profile it deleted is
\* not put back by it.
C11_DeleteNeverRaises ==
  [][ \A p \in Procs :
        (call[p].op = "delete" /\ lpc[p] \in {"delCheck", "delDelete"}
           /\ lpc'[p] # lpc[p])
          => /\ files' = files
             /\ lpc'[p] = "idle" => call'[p].result = "ok" ]_vars

\* C11, witness: a delete ended after its DELETE was answered 500: it
\* returned, the profile is gone and the job is still registered.
C11_DeleteRejectedProfileGone ==
  \E p \in Procs :
    /\ call[p].op = "delete" /\ lpc[p] = "idle"
    /\ call[p].req = "DELETE" /\ call[p].status = 500
    /\ call[p].result = "ok"
    /\ files[call[p].profile.id] = NoProfile
    /\ jobs[call[p].profile.id] # NoProfile

\* C24: setupDebeziumConnector first GETs the job by the name of the
\* profile and then issues exactly one write, a PUT of the config if the GET
\* was answered ok, a POST of {name, config} if it was answered 404; after
\* any other answer it issues no write and fails.
C24_GetThenExactlyOneWrite ==
  \A p \in Procs :
    (call[p].op = "save" /\ call[p].fetches # <<>>) =>
      LET f == call[p].fetches
          name == getConnectorName(call[p].profile)
          returned == lpc[p] = "idle" IN
      /\ f[1].method = "GET" /\ f[1].path = <<"connectors", name>>
      /\ Len(f) <= 2
      /\ Len(f) = 2 =>
           \/ /\ ResponseOk(f[1].status)
              /\ f[2].method = "PUT" /\ f[2].body = "config"
              /\ f[2].path = <<"connectors", name, "config">>
           \/ /\ f[1].status = 404
              /\ f[2].method = "POST" /\ f[2].body = "name,config"
              /\ f[2].path = <<"connectors">>
      /\ returned =>
           IF ResponseOk(f[1].status) \/ f[1].status = 404
             THEN Len(f) = 2
             ELSE Len(f) = 1 /\ call[p].result = "RegistrationError"

\* C24, witness: one save found the job and ended after its PUT, another
\* was answered 500 to its GET and ended with an error and no write.
C24_UpdatedAndRefused ==
  \E p, q \in Procs :
    /\ lpc[p] = "idle" /\ lpc[q] = "idle"
    /\ Len(call[p].fetches) = 2 /\ call[p].fetches[2].method = "PUT"
    /\ Len(call[q].fetches) = 1 /\ call[q].fetches[1].status = 500
    /\ call[q].result = "RegistrationError"

\* C12: a deleteConnector call sends a request to the gateway only after it
\* has removed the persisted profile.
C12_UnlinkBeforeUnregister ==
  \A p \in Procs :
    call[p].op = "delete" =>
      ((call[p].sent \/ lpc[p] \in {"delCheck", "delDelete"}) => call[p].unlinked)

\* C12, witness: a delete removed the profile, then the job: its DELETE was
\* answered 204.
C12_UnlinkedThenUnregistered ==
  \E p \in Procs :
    /\ call[p].op = "delete" /\ call[p].unlinked
    /\ call[p].req = "DELETE" /\ call[p].status = 204
    /\ files[call[p].profile.id] = NoProfile
    /\ jobs[call[p].profile.id] = NoProfile

\* C13: on the create/update path prepareForConnector runs only after
\* validate returned ready in that call.
C13_PrepareOnlyAfterReadyValidate ==
  \A p \in Procs :
    (call[p].op = "save" /\ call[p].prepared) => call[p].validated = "ready"

(***************************************************************************)
(*                  CLAIMS ABOUT THE DATABASE HANDLERS                     *)
(***************************************************************************)

\* C9: every report validate or fix returns has ready true if and only if
\* none of its steps has status error.
C9_ReadyIffNoErrorStep ==
  lastOp # "none" => (report.isReady <=> ~HasError(report.results))

IsFixStep(name) ==
  name \in {"Fix WAL Level", "Fix Max WAL Senders", "Fix Max Replication Slots",
            "Fix Binlog Format", "Fix Binlog Row Image", "Fix User Permissions"}

\* The corrective action of a check, where the handler has one.
FixStepOf(engine, name) ==
  CASE name = "WAL Level" -> "Fix WAL Level"
    [] name = "Max WAL Senders" -> "Fix Max WAL Senders"
    [] name = "Max Replication Slots" -> "Fix Max Replication Slots"
    [] name = "Binlog Format" -> "Fix Binlog Format"
    [] name = "Binlog Row Image" -> "Fix Binlog Row Image"
    [] name = "User Permissions" /\ engine = "mysql" -> "Fix User Permissions"
    [] OTHER -> "none"

RECURSIVE CheckSteps(_)
CheckSteps(results) ==
  IF results = <<>> THEN <<>>
  ELSE (IF IsFixStep(Head(results).step) \/ Head(results).step = "Restart Required"
          THEN <<>> ELSE <<Head(results)>>)
       \o CheckSteps(Tail(results))

StepNames(engine) ==
  IF engine = "postgres"
    THEN <<"Database Connection", "WAL Level", "Max WAL Senders",
           "Max Replication Slots", "User Permissions">>
    ELSE <<"Database Connection", "Binlog Format", "Binlog Row Image",
           "User Permissions">>

\* C14, as stated: the first step of a validate report is the connection
\* step, and when the connection fails the report is not ready and still has
\* a step for every later check, each failed or skipped.
C14_FailedConnectionKeepsLaterSteps ==
  lastOp = "validate" =>
    LET rs == report.results
        names == StepNames(dbBefore.engine) IN
    /\ rs # <<>> /\ rs[1].step = "Database Connection"
    /\ ~dbBefore.connect =>
         /\ ~report.isReady
         /\ Len(rs) = Len(names)
         /\ \A i \in 2..Len(rs) :
              rs[i].step = names[i] /\ rs[i].status \in {"error", "skipped"}

\* C14, amended: the first step of a validate report is the connection step,
\* successful exactly when the connection was made; when the connection fails
\* the report is not ready and consists of the failed connection step alone:
\* no later check is run or reported.
C14_FailedConnectionIsOnlyStep ==
  lastOp = "validate" =>
    LET rs == report.results IN
    /\ rs # <<>> /\ rs[1].step = "Database Connection"
    /\ rs[1].status = IF dbBefore.connect THEN "success" ELSE "error"
    /\ ~dbBefore.connect => (~report.isReady /\ Len(rs) = 1)

\* C14, witness: validate could not connect to a PostgreSQL server and
\* returned one step.
C14_ConnectionFailedOneStep ==
  /\ lastOp = "validate"
  /\ dbBefore.engine = "postgres" /\ ~dbBefore.connect
  /\ Len(report.results) = 1 /\ ~report.isReady

\* The status a check reports of a database: error when its setting is wrong
\* or cannot be read, a warning for a binlog_row_image that cannot be read.
StatusOf(d, name) ==
  CASE name = "Database Connection" -> "success"
    [] name = "WAL Level" -> IF d.wal_level = "logical" THEN "success" ELSE "error"
    [] name = "Max WAL Senders" -> IF d.max_wal_senders >= 1 THEN "success" ELSE "error"
    [] name = "Max Replication Slots" ->
         IF d.max_replication_slots >= 1 THEN "success" ELSE "error"
    [] name = "User Permissions" /\ d.engine = "postgres" ->
         IF d.rolsuper = "super" THEN "success" ELSE "error"
    [] name = "Binlog Format" -> IF d.binlog_format = "ROW" THEN "success" ELSE "error"
    [] name = "Binlog Row Image" ->
         IF d.binlog_row_image = "FULL" THEN "success"
         ELSE IF d.binlog_row_image = "absent" THEN "warning" ELSE "error"
    [] name = "User Permissions" /\ d.engine = "mysql" ->
         IF d.grants = "all" THEN "success" ELSE "error"

\* C15: with the connection made, validate reports exactly one step for each
\* check of the engine, in the fixed order, and the status of each is that of
\* its own setting, whatever the earlier checks found.
C15_EveryCheckReported ==
  (lastOp = "validate" /\ dbBefore.connect) =>
    LET rs == report.results
        names == StepNames(dbBefore.engine) IN
    /\ Len(rs) = Len(names)
    /\ \A i \in 1..Len(rs) :
         rs[i].step = names[i] /\ rs[i].status = StatusOf(dbBefore, names[i])

\* C15, witness: the first check of a MySQL server was in error and the
\* last check was reported all the same, successful.
C15_LaterCheckAfterFailure ==
  /\ lastOp = "validate"
  /\ dbBefore.engine = "mysql" /\ dbBefore.connect
  /\ Len(report.results) = 4
  /\ report.results[2].status = "error"
  /\ report.results[3].status = "error"
  /\ report.results[4].status = "success"

\* C16: fix on a database of which validate returns ready returns a report
\* that is ready and has no step in error, and changes nothing in the
\* database.
C16_FixOnReadyChangesNothing ==
  (lastOp = "fix" /\ Validate(dbBefore).isReady) =>
    /\ report.isReady
    /\ ~HasError(report.results)
    /\ \A i \in 1..Len(report.results) : ~IsFixStep(report.results[i].step)
    /\ db = dbBefore

\* C16, witness: fix ran on a ready MySQL server whose SET GLOBAL would have
\* failed, and on which binlog_row_image cannot be read.
C16_FixRanOnReady ==
  /\ lastOp = "fix"
  /\ dbBefore.engine = "mysql" /\ ~dbBefore.setOk
  /\ dbBefore.binlog_row_image = "absent"
  /\ Validate(dbBefore).isReady
  /\ report.isReady

\* The setting each corrective action of the PostgreSQL handler writes.
SettingOf(name) ==
  CASE name = "Fix WAL Level" -> "wal_level"
    [] name = "Fix Max WAL Senders" -> "max_wal_senders"
    [] name = "Fix Max Replication Slots" -> "max_replication_slots"

\* C17: a corrective action of the PostgreSQL handler that went through, and
\* takes effect at the next restart (the database fix leaves behind has the
\* setting written and not yet in force), is reported with status warning, and
\* one that failed with status error; a fix report that has a warning and no
\* error among its steps is ready.
C17_RestartIsWarning ==
  lastOp = "fix" =>
    LET rs == report.results
        left == FixDb(dbBefore) IN
    /\ dbBefore.engine = "postgres" =>
         \A i \in 1..Len(rs) :
           IsFixStep(rs[i].step) =>
             /\ rs[i].status \in {"warning", "error"}
             /\ rs[i].status = "warning" <=>
                  /\ SettingOf(rs[i].step) \in left.pending
                  /\ left[SettingOf(rs[i].step)] = dbBefore[SettingOf(rs[i].step)]
    /\ ((\E i \in 1..Len(rs) : rs[i].status = "warning") /\ ~HasError(rs))
         => report.isReady

\* C17, witness: fix wrote wal_level with ALTER SYSTEM and reported it as a
\* warning, with the restart warning at the end.
C17_AlteredNeedsRestart ==
  /\ lastOp = "fix"
  /\ dbBefore.engine = "postgres"
  /\ "wal_level" \in db.pending
  /\ \E i \in 1..Len(report.results) :
       report.results[i] = Step("Fix WAL Level", "warning")
  /\ report.results[Len(report.results)] = Step("Restart Required", "warning")
  /\ report.isReady

(***************************************************************************)
(*                 CLAIMS ABOUT THE ENVELOPE CLASSIFIER                    *)
(***************************************************************************)

\* A value that has the shape of a data-change envelope: before, after,
\* source, ts_ms and an op, recognized or not.
WellFormedEnvelope(v) ==
  /\ v.raw = "json" /\ v.json = "object" /\ v.payload.kind = "object"
  /\ v.payload.before \in {"record", "null"}
  /\ v.payload.after \in {"record", "null"}
  /\ v.payload.source = "ok"
  /\ v.payload.ts_ms = "number"
  /\ v.payload.transaction # "bad"
  /\ v.payload.op # "missing"

\* C18: for a key and a value that both parse, the value a well-formed
\* data-change envelope, the classifier builds one event, and it is the
\* data-change event exactly when the op of the value is one of c, u, d, r, t,
\* whatever the key holds (stated for the keys that are a key message with
\* an object for payload, whatever the fields of that object).
C18_DataChangeIffRecognizedOp ==
  ( /\ outcome # NoOutcome
    /\ msg.key.raw = "json" /\ msg.key.json = "object"
    /\ msg.key.payload \in {"object", "databaseName:string", "databaseName:number"}
    /\ WellFormedEnvelope(msg.value) ) =>
    /\ outcome.type \in {"parsed", "schema-change", "unknown"}
    /\ outcome.type = "parsed" <=> msg.value.payload.op \in Ops

\* C19: when the key or the value is absent or is not JSON, or the value is
\* accepted by neither value schema, the classifier builds the unknown event
\* with a parseError that is not empty; and eachMessage never throws.
C19_UnknownWithParseError ==
  outcome # NoOutcome =>
    /\ ~outcome.threw
    /\ ( \/ msg.key.raw # "json"
         \/ msg.value.raw # "json"
         \/ /\ ~DebeziumValueMessageSchema(msg.value)
            /\ ~DebeziumSchemaChangeValueMessageSchema(msg.value) )
         => (outcome.type = "unknown" /\ outcome.parseError # "")

\* C19, witness: a value that is JSON and that neither schema accepts, with a
\* key that is in order, was made an unknown event.
C19_ValueFailedBothSchemas ==
  /\ outcome.type = "unknown"
  /\ msg.key.raw = "json" /\ msg.key.payload = "object"
  /\ msg.value.raw = "json" /\ msg.value.json = "object"
  /\ msg.value.payload.op \in Ops
  /\ msg.value.payload.source = "bad"

\* C27: if fix returns ready for a source, a validate run immediately
\* afterwards on the same, otherwise unchanged source returns ready too.
C27_ReadyFixThenReadyValidate ==
  (lastOp = "fix" /\ report.isReady /\ db = FixDb(dbBefore)) =>
    Validate(db).isReady

C20_SchemasMutuallyExclusive ==
  outcome # NoOutcome =>
    ~( /\ DebeziumValueMessageSchema(msg.value)
       /\ DebeziumSchemaChangeValueMessageSchema(msg.value) )

(***************************************************************************)
(*                CLAIMS ABOUT THE CAPTURE CONFIGURATION                   *)
(***************************************************************************)

\* C21: getDebeziumConfig is a function of the profile: any two invocations
\* with the same profile return the same map, every generated identifier in
\* it included.
C21_SameProfileSameConfig ==
  \A i, j \in 1..Len(config.configs) : config.configs[i] = config.configs[j]

(***************************************************************************)
(*                   CLAIMS ABOUT THE STREAM SESSIONS                      *)
(***************************************************************************)

\* C22: any two distinct stream sessions use distinct consumer-group
\* identities, two sessions opened at the same clock millisecond for the
\* same source included.
C22_SessionsHaveDistinctGroups ==
  \A i, j \in 1..Len(sessions.groupIds) :
    i # j => sessions.groupIds[i].groupId # sessions.groupIds[j].groupId

(***************************************************************************)
(*                 CLAIMS ABOUT THE CLIENT STREAM HOOK                     *)
(***************************************************************************)

\* C26: the message list of the hook never contains two entries with the
\* same topic and offset, whatever was received, stopped, started, cleared
\* or changed.
C26_NoTwoEntriesSameTopicOffset ==
  \A i, j \in 1..Len(hook.messages) :
    (/\ hook.messages[i].topic = hook.messages[j].topic
     /\ hook.messages[i].offset = hook.messages[j].offset) => i = j

\* C26, witness: the list holds an entry for every offset of the topic, and
\* entries of it were received again and passed over.
C26_ReplayPassedOver ==
  /\ Len(hook.messages) = MaxOffset + 1
  /\ hook.skipped # {}
  /\ \A data \in hook.skipped : \E i \in 1..Len(hook.messages) : hook.messages[i] = data

\* C28: the hook suppresses no message that it has not shown: a message it
\* passes over is in the list, so that of two messages of one topic with
\* the same offset and different partitions both are added.
C28_OnlyShownMessagesPassedOver ==
  \A data \in hook.skipped :
    \E i \in 1..Len(hook.messages) : hook.messages[i] = data

(***************************************************************************)
(*               CLAIMS ABOUT THE INFRASTRUCTURE WIDGET                    *)
(***************************************************************************)

\* C29: after the operator stopped the infrastructure from the widget, the
\* widget issues no start on its own: the automatic start fires only with no
\* operator stop before it, and at most once in a mount.
C29_NoAutoStartAfterOperatorStop ==
  [][widget'.autoStarts > widget.autoStarts =>
       (~widget.operatorStopped /\ widget.autoStarts = 0)]_vars

====
